---- MODULE Spec2Model ----
(***************************************************************************)
(* Model of gift/pipelines/pipeline_utils.py: the replicated TrainState,   *)
(* its synchronisation across replicas, checkpoint save / restore, the     *)
(* layer sampler and the parameter scheduler.                              *)
(*                                                                         *)
(* An optional Python value (None or a value) is a sequence of length 0 or *)
(* 1: <<>> is None and <<v>> is the value v.                               *)
(***************************************************************************)
EXTENDS Integers, Sequences, FiniteSets, TLC

\* ---------------------------------------------------------------- bounds
NumHosts == 2
LocalDevices == 2
MaxStep == 2
MaxVal == 1
MaxKeep == 2

\* ------------------------------------------------------ replica topology
Hosts == 0 .. (NumHosts - 1)
NumDevices == NumHosts * LocalDevices
Devices == 0 .. (NumDevices - 1)
\* jax.host_id() of the process that drives device d
HostOf(d) == d \div LocalDevices
\* index 0 of the leading (local device) axis held by host h
FirstLocalDevice(h) == h * LocalDevices

\* names of the leaves a model_state collection can hold
LeafNames == {"mean", "var"}
LeafOffset(l) == IF l = "mean" THEN 0 ELSE 1

VARIABLES
  train_state,  \* the replicated TrainState: each field is indexed by device
  store,        \* files under experiment_dir: path -> serialized TrainState
  keep,         \* the `keep` argument the pipeline passes to save_checkpoint
  last,         \* the most recent call: operation, arguments, outcome, value
  saves,        \* global steps of host 0's save_checkpoint calls, in order
  mono,         \* TRUE while those calls were at strictly increasing steps
  sl,           \* one call of sample_layer / get_sample_layer_params
  sc,           \* one call of scheduler
  mx            \* one matching of a batch and the interpolation that uses it

vars == <<train_state, store, keep, last, saves, mono, sl, sc, mx>>

\* ------------------------------------------------------------ TrainState
\* TrainState of one replica (lines 41-52)
TrainState(g, o, m, r) ==
  [global_step |-> g, optimizer |-> o, model_state |-> m, rng |-> r]

\* a mutant of unreplicate: the last local replica instead of the first
unreplicate_last(ts, h) ==
  TrainState(ts.global_step[FirstLocalDevice(h) + LocalDevices - 1],
             ts.optimizer[FirstLocalDevice(h) + LocalDevices - 1],
             ts.model_state[FirstLocalDevice(h) + LocalDevices - 1],
             ts.rng[FirstLocalDevice(h) + LocalDevices - 1])

\* jax_utils.unreplicate as called on host h (line 160): element 0 of the
\* leading device axis of every field
unreplicate(ts, h) ==
  TrainState(ts.global_step[FirstLocalDevice(h)],
             ts.optimizer[FirstLocalDevice(h)],
             ts.model_state[FirstLocalDevice(h)],
             ts.rng[FirstLocalDevice(h)])

\* jax_utils.replicate, which the caller applies to a restored TrainState
replicate(s) ==
  [global_step |-> [d \in Devices |-> s.global_step],
   optimizer   |-> [d \in Devices |-> s.optimizer],
   model_state |-> [d \in Devices |-> s.model_state],
   rng         |-> [d \in Devices |-> s.rng]]

\* jax.tree_leaves(model_state): the leaves of the replicated collection
tree_leaves(ms) == DOMAIN ms[0]

RECURSIVE SumUpTo(_, _, _)
SumUpTo(ms, l, d) == IF d < 0 THEN 0 ELSE ms[d][l] + SumUpTo(ms, l, d - 1)

\* a mutant of pmap_mean: psum, the all-reduce without the division
pmap_sum(ms) ==
  [d \in Devices |-> [l \in DOMAIN ms[d] |-> SumUpTo(ms, l, NumDevices - 1)]]

\* pmap_mean (lines 96-98): jax.lax.pmean of every leaf over the axis 'x'
pmap_mean(ms) ==
  [d \in Devices |->
     [l \in DOMAIN ms[d] |-> SumUpTo(ms, l, NumDevices - 1) \div NumDevices]]

\* sync_model_state_across_replicas (lines 101-118)
sync_model_state_across_replicas(ts) ==
  IF tree_leaves(ts.model_state) # {}
    THEN [ts EXCEPT !.model_state = pmap_mean(ts.model_state)]
    ELSE ts

\* ------------------------------------------------------- checkpoint store
\* The store maps a file path <<directory, prefix, step>> to the TrainState
\* serialized in it.  flax.training.checkpoints is a library the pipeline
\* calls; it is modelled by its documented contract.
experiment_dir == "experiment_dir"

\* a mutant of checkpoint_path: another default prefix than the library's
checkpoint_path_ckpt(ckpt_dir, step) == <<ckpt_dir, "ckpt_", step>>

\* checkpoint_path (lines 142-143) with its default prefix 'checkpoint_'
checkpoint_path(ckpt_dir, step) == <<ckpt_dir, "checkpoint_", step>>

\* tf.io.gfile.exists (line 163)
exists(files, path) == path \in DOMAIN files

\* the checkpoint files of a directory, as the library globs them
checkpoint_files(files, ckpt_dir) ==
  {p \in DOMAIN files : p[1] = ckpt_dir /\ p[2] = "checkpoint_"}

\* the files the library removes: all but the `k` highest steps
old_ckpts(paths, k) ==
  {p \in paths : Cardinality({q \in paths : q[3] > p[3]}) >= k}

\* checkpoints.save_checkpoint(ckpt_dir, target, step, keep=k), overwrite
\* left False: an existing file of that step makes the call fail; otherwise
\* the file is written and the oldest files beyond `k` are removed
checkpoints_save_checkpoint(files, ckpt_dir, target, step, k) ==
  LET path == <<ckpt_dir, "checkpoint_", step>>
      written == [p \in (DOMAIN files) \cup {path} |->
                    IF p = path THEN target ELSE files[p]]
      removed == old_ckpts(checkpoint_files(written, ckpt_dir), k)
  IN IF path \in DOMAIN files
       THEN [files |-> files, outcome |-> "error"]
       ELSE [files |-> [p \in (DOMAIN written) \ removed |-> written[p]],
             outcome |-> "wrote"]

\* a mutant of save_checkpoint: every host writes
save_checkpoint_every_host(host_id, files, dir, ts, k) ==
  LET checkpoint_state == unreplicate(ts, host_id)
      ckpt_path == checkpoint_path(dir, checkpoint_state.global_step)
  IN IF ~ exists(files, ckpt_path)
       THEN checkpoints_save_checkpoint(files, dir, checkpoint_state,
                                        checkpoint_state.global_step, k)
       ELSE [files |-> files, outcome |-> "skipped"]

\* a mutant of save_checkpoint: `keep` is not passed on, the library then
\* keeps one more file than asked
save_checkpoint_keep_more(host_id, files, dir, ts, k) ==
  IF host_id = 0
    THEN LET checkpoint_state == unreplicate(ts, host_id)
             ckpt_path == checkpoint_path(dir, checkpoint_state.global_step)
         IN IF ~ exists(files, ckpt_path)
              THEN checkpoints_save_checkpoint(files, dir, checkpoint_state,
                                               checkpoint_state.global_step,
                                               k + 1)
              ELSE [files |-> files, outcome |-> "skipped"]
    ELSE [files |-> files, outcome |-> "not_writer"]

\* save_checkpoint (lines 146-168) run by the process jax.host_id() = host_id
save_checkpoint(host_id, files, dir, ts, k) ==
  IF host_id = 0
    THEN LET checkpoint_state == unreplicate(ts, host_id)
             ckpt_path == checkpoint_path(dir, checkpoint_state.global_step)
         IN IF ~ exists(files, ckpt_path)
              THEN checkpoints_save_checkpoint(files, dir, checkpoint_state,
                                               checkpoint_state.global_step,
                                               k)
              ELSE [files |-> files, outcome |-> "skipped"]
    ELSE [files |-> files, outcome |-> "not_writer"]

\* latest_checkpoint of the library: the file of the highest step, if any
latest_checkpoint(files, ckpt_dir) ==
  LET paths == checkpoint_files(files, ckpt_dir)
  IN IF paths = {} THEN <<>>
     ELSE <<CHOOSE p \in paths : \A q \in paths : q[3] <= p[3]>>

\* checkpoints.restore_checkpoint(ckpt_dir, target, step): with a step, the
\* file of that step or a failure; without one, the latest file, or the
\* target itself when the directory holds no checkpoint file
checkpoints_restore_checkpoint(files, ckpt_dir, target, step) ==
  IF step # <<>>
    THEN IF <<ckpt_dir, "checkpoint_", step[1]>> \in DOMAIN files
           THEN [outcome |-> "restored",
                 state |-> <<files[<<ckpt_dir, "checkpoint_", step[1]>>]>>]
           ELSE [outcome |-> "error", state |-> <<>>]
    ELSE IF latest_checkpoint(files, ckpt_dir) = <<>>
           THEN [outcome |-> "target", state |-> <<target>>]
           ELSE [outcome |-> "restored",
                 state |-> <<files[latest_checkpoint(files, ckpt_dir)[1]]>>]

\* a mutant of restore_checkpoint: the step argument is not passed on
restore_checkpoint_latest(files, dir, target, step) ==
  LET r == checkpoints_restore_checkpoint(files, dir, target, <<>>)
  IN IF r.outcome = "error"
       THEN [outcome |-> "error", state |-> <<>>, current_step |-> <<>>]
       ELSE [outcome |-> r.outcome, state |-> r.state,
             current_step |-> <<r.state[1].global_step>>]

\* restore_checkpoint (lines 121-139): the pair (train_state, current_step),
\* or the library's failure
restore_checkpoint(files, dir, target, step) ==
  LET r == checkpoints_restore_checkpoint(files, dir, target, step)
  IN IF r.outcome = "error"
       THEN [outcome |-> "error", state |-> <<>>, current_step |-> <<>>]
       ELSE [outcome |-> r.outcome, state |-> r.state,
             current_step |-> <<r.state[1].global_step>>]

\* ------------------------------------------- the training pipeline's calls
NoCall ==
  [op |-> "init", host |-> 0, step |-> <<>>, outcome |-> "none",
   value |-> <<>>, current_step |-> <<>>, fresh |-> FALSE]

\* the per-replica statistics a training step leaves in model_state: equal on
\* all replicas when b = 0, different from replica to replica otherwise
BatchStats(leaves, b) ==
  [d \in Devices |->
     [l \in leaves |-> NumDevices * ((b * d + LeafOffset(l)) % (MaxVal + 1))]]

IdleLayerCall == [pc |-> "idle"]
IdleSchedulerCall == [pc |-> "idle"]
IdleMixCall == [pc |-> "idle"]

InitTrainState(leaves) ==
  [global_step |-> [d \in Devices |-> 0],
   optimizer   |-> [d \in Devices |-> 0],
   model_state |-> [d \in Devices |-> [l \in leaves |-> 0]],
   rng         |-> [d \in Devices |-> d + 1]]

Init ==
  /\ \E leaves \in {{}, LeafNames} : train_state = InitTrainState(leaves)
  /\ store = [p \in {} |-> 0]
  /\ keep \in 1 .. MaxKeep
  /\ last = NoCall
  /\ saves = <<>>
  /\ mono = TRUE
  /\ sl = IdleLayerCall
  /\ sc = IdleSchedulerCall
  /\ mx = IdleMixCall

\* one training step on every replica: global_step + 1, new parameters (the
\* same on every replica), new per-replica statistics
Train ==
  /\ train_state.global_step[0] < MaxStep
  /\ \E b \in 0 .. MaxVal, o \in 0 .. MaxVal :
       train_state' =
         [global_step |-> [d \in Devices |-> train_state.global_step[d] + 1],
          optimizer   |-> [d \in Devices |-> o],
          model_state |-> BatchStats(tree_leaves(train_state.model_state), b),
          rng         |-> train_state.rng]
  /\ last' = [NoCall EXCEPT !.op = "train"]
  /\ UNCHANGED <<store, keep, saves, mono, sl, sc, mx>>

\* a call of sync_model_state_across_replicas
Sync ==
  /\ train_state' = sync_model_state_across_replicas(train_state)
  /\ last' = [NoCall EXCEPT !.op = "sync",
                            !.outcome = IF train_state' = train_state
                                          THEN "same" ELSE "changed"]
  /\ UNCHANGED <<store, keep, saves, mono, sl, sc, mx>>

\* a call of save_checkpoint(experiment_dir, train_state, keep) on host h
Save(h) ==
  LET r == save_checkpoint(h, store, experiment_dir, train_state, keep)
      s == train_state.global_step[FirstLocalDevice(h)]
      increasing == mono /\ (saves = <<>> \/ s > saves[Len(saves)])
  IN /\ store' = r.files
     /\ last' = [NoCall EXCEPT !.op = "save", !.host = h, !.step = <<s>>,
                               !.outcome = r.outcome]
     /\ IF h = 0
          THEN /\ mono' = increasing
               /\ saves' = IF increasing THEN Append(saves, s) ELSE <<>>
          ELSE UNCHANGED <<saves, mono>>
     /\ UNCHANGED <<train_state, keep, sl, sc, mx>>

\* a call of restore_checkpoint(experiment_dir, train_state, step) with the
\* current state as the template; the caller replicates what it returns
Restore(step) ==
  LET r == restore_checkpoint(store, experiment_dir,
                              unreplicate(train_state, 0), step)
  IN /\ last' = [NoCall EXCEPT !.op = "restore", !.step = step,
                               !.outcome = r.outcome, !.value = r.state,
                               !.current_step = r.current_step,
                               !.fresh = /\ last.op = "save"
                                         /\ last.outcome = "wrote"
                                         /\ last.step = step]
     /\ train_state' = IF r.outcome = "error" THEN train_state
                                              ELSE replicate(r.state[1])
     /\ UNCHANGED <<store, keep, saves, mono, sl, sc, mx>>

Next ==
  \/ Train
  \/ Sync
  \/ \E h \in Hosts : Save(h)
  \/ \E step \in {<<>>} \cup {<<s>> : s \in 0 .. MaxStep} : Restore(step)

Spec == Init /\ [][Next]_vars

\* ------------------------------------------------------------ layer sampler
MaxLayers == 3
MaxLayerSetLen == 2

\* the layer names 'l1', 'l2', ... of a model with n layers
LayerKeys(n) == [i \in 1 .. n |-> <<"l", i>>]

maximum(a, b) == IF a >= b THEN a ELSE b
minimum(a, b) == IF a <= b THEN a ELSE b

\* onp.arange(lo, hi): lo, lo + 1, ..., hi - 1, empty when hi <= lo
arange(lo, hi) == [i \in 1 .. (IF hi > lo THEN hi - lo ELSE 0) |-> lo + i - 1]

\* Python's truth value of an optional tuple or list: None and an empty
\* list are false
truth(opt) == opt # <<>> /\ opt[1] # <<>>

Failure(kind) == [kind |-> kind, layer |-> <<>>]

\* layer_keys[int(i)] with Python's indexing: -len <= i < len, else IndexError
GetItem(layer_keys, i) ==
  IF 0 <= i /\ i < Len(layer_keys)
    THEN [kind |-> "ok", layer |-> <<layer_keys[i + 1]>>]
  ELSE IF i < 0 /\ i >= - Len(layer_keys)
    THEN [kind |-> "ok", layer |-> <<layer_keys[Len(layer_keys) + i + 1]>>]
  ELSE Failure("IndexError")

\* layer_keys[int(onp.random.choice(layers))] (lines 736-737): every outcome
\* of the draw; the draw from an empty array raises ValueError
SampledLayers(layer_keys, layers) ==
  IF layers = <<>>
    THEN {Failure("ValueError")}
    ELSE {GetItem(layer_keys, layers[i]) : i \in DOMAIN layers}

\* sample_layer (lines 710-738): the set of its possible outcomes
sample_layer(layer_keys, mixup_layer_range, mixup_layers) ==
  IF truth(mixup_layer_range) /\ truth(mixup_layers)
    THEN {Failure("AssertionError")}
  ELSE IF mixup_layer_range # <<>>
    THEN LET max_mixup_layer == mixup_layer_range[1][2]
             min_mixup_layer == mixup_layer_range[1][1]
             min_layer == maximum(max_mixup_layer, 0)
             max_layer == minimum(min_mixup_layer, Len(layer_keys))
         IN SampledLayers(layer_keys, arange(min_layer, max_layer))
  ELSE IF mixup_layers # <<>>
    THEN SampledLayers(layer_keys, mixup_layers[1])
  ELSE {Failure("ValueError")}

\* get_sample_layer_params (lines 795-805): the mixup_layers it returns
get_sample_layer_params(hparams, layer_keys) ==
  IF hparams.mixup_layer_set # <<>>
    THEN hparams.mixup_layer_set[1]
    ELSE LET min_layer ==
               maximum(IF hparams.min_mixup_layer = <<>> THEN 0
                       ELSE hparams.min_mixup_layer[1], 0)
             max_layer ==
               minimum(IF hparams.max_mixup_layer = <<>> THEN Len(layer_keys)
                       ELSE hparams.max_mixup_layer[1], Len(layer_keys))
         IN arange(min_layer, max_layer)

LayerIndices == (0 - 1) .. (MaxLayers + 1)
LayerSets == UNION {[1 .. n -> LayerIndices] : n \in 0 .. MaxLayerSetLen}
Optional(S) == {<<>>} \cup {<<x>> : x \in S}
NoHparams ==
  [mixup_layer_set |-> <<>>, min_mixup_layer |-> <<>>, max_mixup_layer |-> <<>>]

InitCheckpointIdle ==
  /\ train_state = InitTrainState({})
  /\ store = [p \in {} |-> 0]
  /\ keep = 1
  /\ last = NoCall
  /\ saves = <<>>
  /\ mono = TRUE

InitLayer ==
  /\ InitCheckpointIdle
  /\ sc = IdleSchedulerCall
  /\ mx = IdleMixCall
  /\ \E n \in 1 .. MaxLayers :
       \/ \E r \in Optional(LayerIndices \X LayerIndices), m \in Optional(LayerSets) :
            sl = [pc |-> "call", layer_keys |-> LayerKeys(n), hparams |-> NoHparams,
                  mixup_layer_range |-> r, mixup_layers |-> m,
                  result |-> Failure("none")]
       \/ \E lo \in Optional(LayerIndices), hi \in Optional(LayerIndices),
             m \in Optional(LayerSets) :
            sl = [pc |-> "params", layer_keys |-> LayerKeys(n),
                  hparams |-> [mixup_layer_set |-> m, min_mixup_layer |-> lo,
                               max_mixup_layer |-> hi],
                  mixup_layer_range |-> <<>>, mixup_layers |-> <<>>,
                  result |-> Failure("none")]

\* the pipeline reads the sampler's arguments from hparams
GetSampleLayerParams ==
  /\ sl.pc = "params"
  /\ sl' = [sl EXCEPT !.pc = "call",
                      !.mixup_layers =
                         <<get_sample_layer_params(sl.hparams, sl.layer_keys)>>]
  /\ UNCHANGED <<train_state, store, keep, last, saves, mono, sc, mx>>

\* a call of sample_layer(layer_keys, mixup_layer_range, mixup_layers)
SampleLayer ==
  /\ sl.pc = "call"
  /\ \E r \in sample_layer(sl.layer_keys, sl.mixup_layer_range, sl.mixup_layers) :
       sl' = [sl EXCEPT !.pc = "done", !.result = r]
  /\ UNCHANGED <<train_state, store, keep, last, saves, mono, sc, mx>>

NextLayer == GetSampleLayerParams \/ SampleLayer

SpecLayer == InitLayer /\ [][NextLayer]_vars

\* ---------------------------------------------------------------- scheduler
MaxSchedStep == 4
MaxSchedValue == 2
MaxNumSteps == 3
MaxTotalSteps == 4

\* floor(a / b) for b > 0
FloorDiv(a, b) == a \div b

\* a returned number is the fraction num / den with den > 0
Value(num, den) == [kind |-> "value", num |-> num, den |-> den]
NoValue(kind) == [kind |-> kind, num |-> 0, den |-> 1]

\* a mutant of scheduler: the decrement of linear_decay is spread over
\* num_steps segments instead of num_steps - 1
scheduler_decay_over_num_steps(step, params) ==
  LET num_steps == IF params.num_steps = <<>> THEN 1 ELSE params.num_steps[1]
      segment == FloorDiv(step * num_steps, params.total_steps)
      den == IF num_steps > 1 THEN num_steps - 1 ELSE 1
  IN IF params.mode = "constant"
       THEN Value(params.initial_value, 1)
     ELSE IF params.mode = "linear_decay"
       THEN IF num_steps > 1 /\ params.min_value = <<>>
              THEN NoValue("KeyError")
            ELSE LET decay_num == IF num_steps > 1
                                    THEN params.initial_value - params.min_value[1]
                                    ELSE 0
                     value_num == params.initial_value * num_steps
                                    - segment * decay_num
                 IN IF params.min_value # <<>>
                      THEN Value(maximum(params.min_value[1] * num_steps, value_num),
                                 num_steps)
                      ELSE Value(value_num, num_steps)
     ELSE IF params.mode = "linear_grow"
       THEN IF num_steps > 1 /\ params.max_value = <<>>
              THEN NoValue("KeyError")
            ELSE LET decay_num == IF num_steps > 1
                                    THEN params.max_value[1] - params.initial_value
                                    ELSE 0
                     value_num == segment * decay_num
                 IN IF params.max_value # <<>>
                      THEN Value(minimum(params.max_value[1] * den, value_num), den)
                      ELSE Value(value_num, den)
     ELSE NoValue("None")

\* a mutant of scheduler: linear_grow starts from initial_value, as
\* linear_decay does, instead of from 0
scheduler_grow_from_initial(step, params) ==
  LET num_steps == IF params.num_steps = <<>> THEN 1 ELSE params.num_steps[1]
      segment == FloorDiv(step * num_steps, params.total_steps)
      den == IF num_steps > 1 THEN num_steps - 1 ELSE 1
  IN IF params.mode = "constant"
       THEN Value(params.initial_value, 1)
     ELSE IF params.mode = "linear_decay"
       THEN IF num_steps > 1 /\ params.min_value = <<>>
              THEN NoValue("KeyError")
            ELSE LET decay_num == IF num_steps > 1
                                    THEN params.initial_value - params.min_value[1]
                                    ELSE 0
                     value_num == params.initial_value * den - segment * decay_num
                 IN IF params.min_value # <<>>
                      THEN Value(maximum(params.min_value[1] * den, value_num), den)
                      ELSE Value(value_num, den)
     ELSE IF params.mode = "linear_grow"
       THEN IF num_steps > 1 /\ params.max_value = <<>>
              THEN NoValue("KeyError")
            ELSE LET decay_num == IF num_steps > 1
                                    THEN params.max_value[1] - params.initial_value
                                    ELSE 0
                     value_num == params.initial_value * den + segment * decay_num
                 IN IF params.max_value # <<>>
                      THEN Value(minimum(params.max_value[1] * den, value_num), den)
                      ELSE Value(value_num, den)
     ELSE NoValue("None")

\* scheduler (lines 741-792).  step // step_size with step_size =
\* total_steps / num_steps is floor(step * num_steps / total_steps) in exact
\* arithmetic; a mode that matches no branch falls off the end of the
\* function, which returns None.
scheduler(step, params) ==
  LET num_steps == IF params.num_steps = <<>> THEN 1 ELSE params.num_steps[1]
      segment == FloorDiv(step * num_steps, params.total_steps)
      den == IF num_steps > 1 THEN num_steps - 1 ELSE 1
  IN IF params.mode = "constant"
       THEN Value(params.initial_value, 1)
     ELSE IF params.mode = "linear_decay"
       THEN IF num_steps > 1 /\ params.min_value = <<>>
              THEN NoValue("KeyError")
            ELSE LET decay_num == IF num_steps > 1
                                    THEN params.initial_value - params.min_value[1]
                                    ELSE 0
                     value_num == params.initial_value * den - segment * decay_num
                 IN IF params.min_value # <<>>
                      THEN Value(maximum(params.min_value[1] * den, value_num), den)
                      ELSE Value(value_num, den)
     ELSE IF params.mode = "linear_grow"
       THEN IF num_steps > 1 /\ params.max_value = <<>>
              THEN NoValue("KeyError")
            ELSE LET decay_num == IF num_steps > 1
                                    THEN params.max_value[1] - params.initial_value
                                    ELSE 0
                     value_num == segment * decay_num
                 IN IF params.max_value # <<>>
                      THEN Value(minimum(params.max_value[1] * den, value_num), den)
                      ELSE Value(value_num, den)
     ELSE NoValue("None")

DefinedModes == {"constant", "linear_decay", "linear_grow"}
Modes == DefinedModes \cup {"cosine", "linear"}

\* the schedule of the documented example: from 10 down to 0 in 5 segments
\* over 10 steps
ExampleDecayParams ==
  [mode |-> "linear_decay", initial_value |-> 10, min_value |-> <<0>>,
   max_value |-> <<>>, num_steps |-> <<5>>, total_steps |-> 10]

InitSched ==
  /\ InitCheckpointIdle
  /\ sl = IdleLayerCall
  /\ mx = IdleMixCall
  /\ \/ \E step \in 0 .. 12 :
          sc = [pc |-> "call", step |-> step, params |-> ExampleDecayParams,
                result |-> NoValue("none")]
     \/ \E step \in 0 .. MaxSchedStep, mode \in Modes, iv \in 0 .. MaxSchedValue,
        lo \in Optional(0 .. MaxSchedValue), hi \in Optional(0 .. MaxSchedValue),
        n \in Optional(1 .. MaxNumSteps), total \in 1 .. MaxTotalSteps :
          sc = [pc |-> "call", step |-> step,
                params |-> [mode |-> mode, initial_value |-> iv, min_value |-> lo,
                            max_value |-> hi, num_steps |-> n,
                            total_steps |-> total],
                result |-> NoValue("none")]

\* a call of scheduler(step, params)
Scheduler ==
  /\ sc.pc = "call"
  /\ sc' = [sc EXCEPT !.pc = "done", !.result = scheduler(sc.step, sc.params)]
  /\ UNCHANGED <<train_state, store, keep, last, saves, mono, sl, mx>>

NextSched == Scheduler

SpecSched == InitSched /\ [][NextSched]_vars

\* ------------------------------------------------ matching and interpolation
MaxBatch == 3
MaxRep == 2
MaxLambdas == 2
\* a coefficient is the fraction q / LambdaDen; lmbda = -1 is q = -LambdaDen
LambdaDen == 2

\* jnp.eye(n)
eye(n) == [i \in 1 .. n |-> [j \in 1 .. n |-> IF i = j THEN 1 ELSE 0]]

\* a mutant of the permutation: the rows are drawn with replacement
random_choice(x) ==
  {[i \in DOMAIN x |-> x[f[i]]] : f \in [DOMAIN x -> DOMAIN x]}

\* jax.random.permutation(rng, x) (line 621): every outcome, the rows of x in
\* a permuted order
random_permutation(x) ==
  {[i \in DOMAIN x |-> x[f[i]]] :
     f \in {g \in [DOMAIN x -> DOMAIN x] :
              \A i, j \in DOMAIN x : g[i] = g[j] => i = j}}

\* domain_mapping_utils.pairwise_l2: squared distances of all pairs
pairwise_l2(x, y) ==
  [i \in DOMAIN x |-> [j \in DOMAIN y |-> (x[i] - y[j]) * (x[i] - y[j])]]

\* domain_mapping_utils.pairwise_equality_1d: 1 where the labels are equal
pairwise_equality_1d(x, y) ==
  [i \in DOMAIN x |-> [j \in DOMAIN y |-> IF x[i] = y[j] THEN 1 ELSE 0]]

\* jnp.max of a matrix of non-negative entries
MatrixMax(c) ==
  CHOOSE v \in {c[i][j] : i \in DOMAIN c, j \in DOMAIN c[1]} :
     \A i \in DOMAIN c, j \in DOMAIN c[1] : c[i][j] <= v

\* the cost matrix handed to the Sinkhorn solver (lines 637-644)
adjusted_cost(batch, reps, label_cost, l2_cost) ==
  LET l2 == pairwise_l2(reps, reps)
      cost == [i \in DOMAIN l2 |-> [j \in DOMAIN l2[i] |->
                 l2[i][j] + (IF i = j THEN 1 ELSE 0) * MatrixMax(l2) * 10]]
      same_labels == pairwise_equality_1d(batch.label, batch.label)
  IN [i \in DOMAIN cost |-> [j \in DOMAIN cost[i] |->
        (1 - same_labels[i][j]) * label_cost + l2_cost * cost[i][j]]]

Matching(kind, matrix, cost) == [kind |-> kind, matrix |-> matrix, cost |-> cost]

\* get_self_matching_matrix (lines 599-654): the set of its outcomes.  In
\* 'sinkhorn' mode the coupling is the floating-point result of
\* sinkhorn_dual_solver and round_coupling on the adjusted cost; its entries
\* are not computed here.
get_self_matching_matrix(batch, reps, mode, label_cost, l2_cost) ==
  IF mode = "random"
    THEN {Matching("ok", m, <<>>) :
            m \in random_permutation(eye(batch.number_of_examples))}
  ELSE IF mode = "sinkhorn"
    THEN {Matching("coupling", <<>>, adjusted_cost(batch, reps, label_cost, l2_cost))}
  ELSE {Matching("ValueError", <<>>, <<>>)}

RECURSIVE Dot(_, _, _)
\* row[1] * y[1] + ... + row[n] * y[n]
Dot(row, y, n) == IF n = 0 THEN 0 ELSE row[n] * y[n] + Dot(row, y, n - 1)

\* jnp.einsum('ij,j...->i...', matching_matrix, reps2) (line 691)
einsum(matching_matrix, reps2) ==
  [i \in DOMAIN matching_matrix |-> Dot(matching_matrix[i], reps2, Len(reps2))]

\* tensor_util.convex_interpolate: (1 - lmbda) * x + lmbda * y for every row
\* of coefficients, in units of 1 / LambdaDen
convex_interpolate(x, y, lmbda) ==
  [k \in DOMAIN lmbda |->
     [i \in DOMAIN x |-> (LambdaDen - lmbda[k][i]) * x[i] + lmbda[k][i] * y[i]]]

\* jax.random.beta(rng, a, b, shape=(num_lambdas, n)) (lines 694-696): arrays
\* of coefficients in [0, 1]
sample_beta(num_lambdas, n) ==
  {[k \in 1 .. num_lambdas |->
      [i \in 1 .. n |-> (q0 + dq * (i + k)) % (LambdaDen + 1)]] :
     q0 \in 0 .. LambdaDen, dq \in 0 .. LambdaDen}

Interpolation(kind, new_reps, sample_lambdas) ==
  [kind |-> kind, new_reps |-> new_reps, sample_lambdas |-> sample_lambdas]

\* a mutant of interpolate: the array of ones (LambdaDen / LambdaDen) is not
\* scaled by lmbda
interpolate_ones(matching_matrix, reps1, reps2, num_lambdas, lmbda) ==
  IF Len(reps1) # Len(reps2)
    THEN {Interpolation("AssertionError", <<>>, <<>>)}
    ELSE {Interpolation("ok",
                        convex_interpolate(reps1, einsum(matching_matrix, reps2),
                                           sample_lambdas),
                        sample_lambdas) :
            sample_lambdas \in
              IF lmbda # - LambdaDen
                THEN {[k \in 1 .. num_lambdas |->
                         [i \in 1 .. Len(reps1) |-> LambdaDen]]}
                ELSE sample_beta(num_lambdas, Len(reps1))}

\* interpolate (lines 657-707) with the default interpolation_method: the set
\* of its outcomes
interpolate(matching_matrix, reps1, reps2, num_lambdas, lmbda) ==
  IF Len(reps1) # Len(reps2)
    THEN {Interpolation("AssertionError", <<>>, <<>>)}
    ELSE {Interpolation("ok",
                        convex_interpolate(reps1, einsum(matching_matrix, reps2),
                                           sample_lambdas),
                        sample_lambdas) :
            sample_lambdas \in
              IF lmbda # - LambdaDen
                THEN {[k \in 1 .. num_lambdas |->
                         [i \in 1 .. Len(reps1) |-> 1 * lmbda]]}
                ELSE sample_beta(num_lambdas, Len(reps1))}

\* the representations of a batch of n examples
Reps(n, c) == [i \in 1 .. n |-> c * i]

InitMix ==
  /\ InitCheckpointIdle
  /\ sl = IdleLayerCall
  /\ sc = IdleSchedulerCall
  /\ \E n \in 1 .. MaxBatch, c \in 0 .. MaxRep, parity \in 0 .. 1,
        mode \in {"random", "sinkhorn", "nearest"} :
       mx = [pc |-> "match",
             batch |-> [number_of_examples |-> n,
                        label |-> [i \in 1 .. n |-> parity * (i % 2)]],
             reps |-> Reps(n, c), mode |-> mode,
             matching |-> Matching("none", <<>>, <<>>),
             reps2 |-> <<>>, num_lambdas |-> 0, lmbda |-> 0,
             interpolation |-> Interpolation("none", <<>>, <<>>)]

\* a call of get_self_matching_matrix(batch, reps, mode)
GetSelfMatchingMatrix ==
  /\ mx.pc = "match"
  /\ \E m \in get_self_matching_matrix(mx.batch, mx.reps, mx.mode, 1, 1) :
       mx' = [mx EXCEPT !.pc = IF m.kind = "ok" THEN "matched" ELSE "done",
                        !.matching = m]
  /\ UNCHANGED <<train_state, store, keep, last, saves, mono, sl, sc>>

\* a call of interpolate(rng, matching_matrix, reps, reps2, num_lambdas,
\* lmbda=lmbda) with the matching just computed
Interpolate ==
  /\ mx.pc = "matched"
  /\ \E c \in 1 .. MaxRep, extra \in 0 .. 1, num_lambdas \in 1 .. MaxLambdas,
        lmbda \in (0 - LambdaDen) .. (LambdaDen + 1) :
       \E r \in interpolate(mx.matching.matrix, mx.reps,
                            Reps(Len(mx.reps) + extra, c), num_lambdas, lmbda) :
          mx' = [mx EXCEPT !.pc = "done",
                           !.reps2 = Reps(Len(mx.reps) + extra, c),
                           !.num_lambdas = num_lambdas, !.lmbda = lmbda,
                           !.interpolation = r]
  /\ UNCHANGED <<train_state, store, keep, last, saves, mono, sl, sc>>

NextMix == GetSelfMatchingMatrix \/ Interpolate

SpecMix == InitMix /\ [][NextMix]_vars

\* ============================================================ properties
\* the steps that have a checkpoint file under experiment_dir
StoredSteps == {p[3] : p \in checkpoint_files(store, experiment_dir)}

Min(a, b) == IF a <= b THEN a ELSE b

\* C2: at every checkpoint write the model state is identical on all
\* replicas, so the record written does not depend on the replica whose view
\* is taken.
C2_WrittenModelStateIdenticalOnReplicas ==
  (last.op = "save" /\ last.outcome = "wrote") =>
     \A d \in Devices :
        /\ train_state.model_state[d] = train_state.model_state[0]
        /\ store[<<experiment_dir, "checkpoint_", last.step[1]>>].model_state
             = train_state.model_state[d]

\* the directory holds no record that a restore of `step` could load
NoRecordFor(files, step) ==
  IF step = <<>>
    THEN \A p \in DOMAIN files : ~ (p[1] = experiment_dir /\ p[2] = "checkpoint_")
    ELSE <<experiment_dir, "checkpoint_", step[1]>> \notin DOMAIN files

\* C3 as stated: a restore from a directory with no record (or none for the
\* requested step) fails; it never returns a state.
C3_RestoreWithoutRecordFails ==
  (last.op = "restore" /\ NoRecordFor(store, last.step)) =>
     (last.outcome = "error" /\ last.value = <<>>)

\* C3 amended: a restore of an explicit step >= 1 that has no record fails;
\* a restore without a step from a directory with no record returns the
\* template unchanged together with the template's global_step.
C3_RestoreWithoutRecord ==
  [][(last'.op = "restore" /\ NoRecordFor(store, last'.step)) =>
       /\ (last'.step # <<>> /\ last'.step[1] >= 1) =>
             (last'.outcome = "error" /\ last'.value = <<>>
                /\ train_state' = train_state)
       /\ last'.step = <<>> =>
             /\ last'.outcome = "target"
             /\ last'.value =
                  <<[global_step |-> train_state.global_step[0],
                     optimizer   |-> train_state.optimizer[0],
                     model_state |-> train_state.model_state[0],
                     rng         |-> train_state.rng[0]]>>
             /\ last'.current_step = <<train_state.global_step[0]>>]_vars

C3_Witness ==
  /\ last.op = "restore"
  /\ NoRecordFor(store, last.step)
  /\ \/ last.step = <<>> /\ last.current_step # <<0>>
     \/ last.step # <<>> /\ last.step[1] >= 1 /\ store # [p \in {} |-> 0]

\* C5: while host 0's saves come at strictly increasing steps with keep = K,
\* the store holds exactly min(K, number of saves) records, those of the most
\* recent saves.
C5_RetentionKeepsMostRecent ==
  mono =>
    /\ Cardinality(DOMAIN store) = Min(keep, Len(saves))
    /\ StoredSteps =
         {saves[i] : i \in (Len(saves) - Min(keep, Len(saves)) + 1) .. Len(saves)}
    /\ \A p \in DOMAIN store : store[p].global_step = p[3]

C5_Witness ==
  /\ mono
  /\ last.op = "save"
  /\ last.outcome = "wrote"
  /\ Len(saves) > keep

\* C6: a save at a step that already has a record writes nothing: the set of
\* records and every record's content stay as they were.
C6_SaveOfExistingStepWritesNothing ==
  [][(/\ last'.op = "save"
      /\ <<experiment_dir, "checkpoint_", last'.step[1]>> \in DOMAIN store) =>
        (store' = store /\ last'.outcome \in {"skipped", "not_writer"})]_vars

C6_Witness ==
  /\ last.op = "save"
  /\ last.outcome = "skipped"
  /\ store[<<experiment_dir, "checkpoint_", last.step[1]>>].optimizer
       # train_state.optimizer[0]

\* C7: only host 0 ever changes the store, and what it writes is replica 0's
\* view of the state; a save on any other host leaves every record alone.
C7_OnlyHostZeroWrites ==
  [][store' # store =>
       /\ last'.op = "save"
       /\ last'.host = 0
       /\ <<experiment_dir, "checkpoint_", train_state.global_step[0]>>
            \in (DOMAIN store') \ (DOMAIN store)
       /\ store'[<<experiment_dir, "checkpoint_", train_state.global_step[0]>>]
            = [global_step |-> train_state.global_step[0],
               optimizer   |-> train_state.optimizer[0],
               model_state |-> train_state.model_state[0],
               rng         |-> train_state.rng[0]]
       /\ \A p \in (DOMAIN store') \cap (DOMAIN store) : store'[p] = store[p]]_vars

C7_Witness ==
  /\ last.op = "save"
  /\ last.host # 0
  /\ last.outcome = "not_writer"
  /\ <<experiment_dir, "checkpoint_", last.step[1]>> \notin DOMAIN store
  /\ store # [p \in {} |-> 0]

\* C8: a restore of step s right after the save that wrote s returns the
\* state with global_step = s and the optimizer and model state of replica
\* 0's view of the saved state, and the step integer s.
C8_RestoreAfterSaveRoundTrip ==
  [][(last'.op = "restore" /\ last'.fresh) =>
       /\ last'.outcome = "restored"
       /\ last'.value # <<>>
       /\ last'.value[1].global_step = last.step[1]
       /\ last'.value[1].global_step = train_state.global_step[0]
       /\ last'.value[1].optimizer = train_state.optimizer[0]
       /\ last'.value[1].model_state = train_state.model_state[0]
       /\ last'.current_step = last.step]_vars

C8_Witness ==
  /\ last.op = "restore"
  /\ last.fresh
  /\ Cardinality(DOMAIN store) >= 2
  /\ last.value[1].model_state # [l \in DOMAIN last.value[1].model_state |-> 0]

\* C9: a sync replaces every leaf of the model state on every replica by the
\* mean of the leaf over all replicas and leaves global_step, optimizer and
\* rng alone; with an empty model state the state is returned as it was.
C9_SyncAveragesModelState ==
  [][last'.op = "sync" =>
       /\ train_state'.global_step = train_state.global_step
       /\ train_state'.optimizer = train_state.optimizer
       /\ train_state'.rng = train_state.rng
       /\ \A d \in Devices :
            /\ DOMAIN train_state'.model_state[d] = DOMAIN train_state.model_state[d]
            /\ train_state'.model_state[d] = train_state'.model_state[0]
            /\ \A l \in DOMAIN train_state.model_state[d] :
                 NumDevices * train_state'.model_state[d][l]
                   = SumUpTo(train_state.model_state, l, NumDevices - 1)
       /\ (DOMAIN train_state.model_state[0] = {}) => train_state' = train_state]_vars

C9_Witness ==
  /\ last.op = "sync"
  /\ last.outcome = "changed"
  /\ \E l \in DOMAIN train_state.model_state[0] : train_state.model_state[0][l] # 0

\* the indices of [min, max) clamped into [0, len(layer_keys))
EligibleIndices(layer_keys, range) ==
  {i \in 0 .. (Len(layer_keys) - 1) : range[1] <= i /\ i < range[2]}

\* C1: sample_layer called with a layer range and no layer set returns the key
\* of an index of [min, max) clamped into [0, len(layer_keys)), and returns
\* one whenever that range is not empty: with three layers and (0, 2) always
\* 'l1' or 'l2'.
C1_RangeSamplesEligibleLayer ==
  (sl.pc = "done" /\ sl.mixup_layer_range # <<>> /\ sl.mixup_layers = <<>>) =>
     /\ sl.result.kind = "ok" =>
          \E i \in EligibleIndices(sl.layer_keys, sl.mixup_layer_range[1]) :
             sl.result.layer = <<sl.layer_keys[i + 1]>>
     /\ EligibleIndices(sl.layer_keys, sl.mixup_layer_range[1]) # {} =>
          sl.result.kind = "ok"

\* C10: sample_layer fails whenever both a layer range and a layer set are
\* given and whenever neither is; it returns a layer only when exactly one of
\* the two is given.
C10_ExactlyOneOfRangeAndSet ==
  (sl.pc = "done" /\ sl.result.kind = "ok") =>
     (sl.mixup_layer_range = <<>>) # (sl.mixup_layers = <<>>)

\* C4: scheduler called with a mode that is none of constant, linear_decay,
\* linear_grow fails; it returns nothing, not even None.
C4_UndefinedModeFails ==
  (sc.pc = "done" /\ sc.params.mode \notin DefinedModes) =>
     sc.result.kind \notin {"value", "None"}

\* the arguments of the finished scheduler call
SchedNumSteps == IF sc.params.num_steps = <<>> THEN 1 ELSE sc.params.num_steps[1]
SchedSegment == (sc.step * SchedNumSteps) \div sc.params.total_steps
SchedDen == IF SchedNumSteps > 1 THEN SchedNumSteps - 1 ELSE 1

\* a / b >= c / d for b, d > 0
FracGeq(a, b, c, d) == a * d >= c * b

\* C11: in linear_decay mode with num_steps >= 1 and min_value <=
\* initial_value the value is max(min_value, initial_value - segment * d), d =
\* (initial_value - min_value) / (num_steps - 1), or 0 when num_steps = 1; it
\* never rises with the step, never falls below min_value, is initial_value
\* at every step when num_steps = 1, and is 5 at step 5 of the example.
C11_LinearDecayValue ==
  (/\ sc.pc = "done"
   /\ sc.params.mode = "linear_decay"
   /\ sc.params.min_value # <<>>
   /\ sc.params.min_value[1] <= sc.params.initial_value) =>
     LET lo == sc.params.min_value[1]
         iv == sc.params.initial_value
         decrement == IF SchedNumSteps > 1 THEN iv - lo ELSE 0
         expected == IF iv * SchedDen - SchedSegment * decrement >= lo * SchedDen
                       THEN iv * SchedDen - SchedSegment * decrement
                       ELSE lo * SchedDen
     IN /\ sc.result.kind = "value"
        /\ sc.result.den > 0
        /\ sc.result.num * SchedDen = expected * sc.result.den
        /\ sc.result.num >= lo * sc.result.den
        /\ SchedNumSteps = 1 => sc.result.num = iv * sc.result.den
        /\ \A earlier \in 0 .. sc.step :
             FracGeq(scheduler(earlier, sc.params).num,
                     scheduler(earlier, sc.params).den,
                     sc.result.num, sc.result.den)
        /\ (sc.params = ExampleDecayParams /\ sc.step = 5) =>
             sc.result.num = 5 * sc.result.den

C11_Witness ==
  /\ sc.pc = "done"
  /\ sc.params = ExampleDecayParams
  /\ sc.step = 5
  /\ sc.result.kind = "value"
  /\ sc.result.num = 5 * sc.result.den

\* C12: in linear_grow mode with num_steps > 1 and 0 <= initial_value <=
\* max_value the value is 0 in the first segment, grows by (max_value -
\* initial_value) / (num_steps - 1) per segment, never falls with the step and
\* never exceeds max_value.
C12_LinearGrowValue ==
  (/\ sc.pc = "done"
   /\ sc.params.mode = "linear_grow"
   /\ SchedNumSteps > 1
   /\ sc.params.max_value # <<>>
   /\ sc.params.initial_value <= sc.params.max_value[1]) =>
     LET hi == sc.params.max_value[1]
         increment == hi - sc.params.initial_value
         expected == IF SchedSegment * increment <= hi * SchedDen
                       THEN SchedSegment * increment
                       ELSE hi * SchedDen
     IN /\ sc.result.kind = "value"
        /\ sc.result.den > 0
        /\ sc.result.num * SchedDen = expected * sc.result.den
        /\ SchedSegment = 0 => sc.result.num = 0
        /\ sc.result.num <= hi * sc.result.den
        /\ \A earlier \in 0 .. sc.step :
             FracGeq(sc.result.num, sc.result.den,
                     scheduler(earlier, sc.params).num,
                     scheduler(earlier, sc.params).den)

C12_Witness ==
  /\ sc.pc = "done"
  /\ sc.params.mode = "linear_grow"
  /\ SchedNumSteps > 1
  /\ sc.params.max_value # <<>>
  /\ 0 < sc.params.initial_value
  /\ sc.params.initial_value < sc.params.max_value[1]
  /\ SchedSegment >= 1
  /\ sc.result.kind = "value"
  /\ 0 < sc.result.num
  /\ sc.result.num < sc.params.max_value[1] * sc.result.den

RECURSIVE SumTo(_, _)
\* x[1] + ... + x[n]
SumTo(x, n) == IF n = 0 THEN 0 ELSE x[n] + SumTo(x, n - 1)

\* the column j of a matrix, as a sequence
Column(m, j) == [i \in DOMAIN m |-> m[i][j]]

\* C13: in 'random' mode the matching of a batch of n examples is an n x n
\* matrix of zeros and ones whose every row and every column sums to 1,
\* whatever the permutation drawn.
C13_RandomMatchingIsPermutationMatrix ==
  (mx.pc \in {"matched", "done"} /\ mx.mode = "random") =>
     LET n == mx.batch.number_of_examples
         m == mx.matching.matrix
     IN /\ mx.matching.kind = "ok"
        /\ DOMAIN m = 1 .. n
        /\ \A i \in 1 .. n :
             /\ DOMAIN m[i] = 1 .. n
             /\ \A j \in 1 .. n : m[i][j] \in {0, 1}
             /\ SumTo(m[i], n) = 1
             /\ SumTo(Column(m, i), n) = 1

C13_Witness ==
  /\ mx.pc = "matched"
  /\ mx.mode = "random"
  /\ mx.batch.number_of_examples = MaxBatch
  /\ \E i, j \in 1 .. MaxBatch :
       mx.matching.matrix[i][j] # mx.matching.matrix[j][i]

\* C14: with a fixed lmbda (any value but -1) interpolate samples nothing:
\* the coefficient array has shape (num_lambdas, number of examples) and all
\* its entries are lmbda, and the output is (1 - lmbda) * reps1 + lmbda *
\* (the matching applied to reps2); lmbda = 0 gives reps1 and zero
\* coefficients, lmbda = 1 gives the matched reps2.
C14_FixedLambdaInterpolation ==
  (/\ mx.pc = "done"
   /\ mx.interpolation.kind = "ok"
   /\ mx.lmbda # 0 - LambdaDen) =>
     LET n == Len(mx.reps)
         lambdas == mx.interpolation.sample_lambdas
         mixed == mx.interpolation.new_reps
     IN /\ DOMAIN lambdas = 1 .. mx.num_lambdas
        /\ DOMAIN mixed = 1 .. mx.num_lambdas
        /\ \A k \in 1 .. mx.num_lambdas :
             /\ DOMAIN lambdas[k] = 1 .. n
             /\ DOMAIN mixed[k] = 1 .. n
             /\ \A i \in 1 .. n :
                  /\ lambdas[k][i] = mx.lmbda
                  /\ \E j \in 1 .. n :
                       /\ mx.matching.matrix[i][j] = 1
                       /\ mixed[k][i] = (LambdaDen - mx.lmbda) * mx.reps[i]
                                          + mx.lmbda * mx.reps2[j]
                       /\ mx.lmbda = 0 =>
                            (mixed[k][i] = LambdaDen * mx.reps[i]
                               /\ lambdas[k][i] = 0)
                       /\ mx.lmbda = LambdaDen =>
                            mixed[k][i] = LambdaDen * mx.reps2[j]

C14_Witness ==
  /\ mx.pc = "done"
  /\ mx.interpolation.kind = "ok"
  /\ mx.lmbda \in {0, LambdaDen}
  /\ mx.num_lambdas = MaxLambdas
  /\ Len(mx.reps) = MaxBatch
  /\ mx.reps # mx.reps2
  /\ \E i, j \in 1 .. MaxBatch :
       mx.matching.matrix[i][j] # mx.matching.matrix[j][i]

====
